---- MODULE Spec2Model ----
(***************************************************************************)
(* observlib: initialization and graceful shutdown of the three            *)
(* OpenTelemetry providers (tracer, meter, logger) owned by OtelManager.   *)
(*                                                                         *)
(* Strings are modelled as sequences of text fragments, so format! and     *)
(* join are concatenations and "contains" is membership of a fragment.     *)
(* The providers themselves (opentelemetry_sdk) are the environment: a     *)
(* provider's shutdown() takes time, then returns Ok or Err(e), or panics. *)
(***************************************************************************)
EXTENDS Naturals, Sequences, FiniteSets

VARIABLES
    RESOURCE,      \* static RESOURCE: OnceLock<Resource> of get_resource
    subscriber,    \* whether a global default tracing subscriber is installed
    global,        \* opentelemetry::global providers: manager index, 0 = unset
    inits,         \* invocations of initialize_telemetry, in call order
    managers,      \* the OtelManager values returned so far
    calls          \* invocations of shutdown / async_shutdown, in call order

vars == <<RESOURCE, subscriber, global, inits, managers, calls>>

\* ------------------------------------------------------------------ bounds
MaxInits == 2      \* initialize_telemetry invocations explored
MaxCalls == 2      \* shutdown / async_shutdown invocations explored
MaxOps == 3        \* invocations explored in all
MaxSolo == 1       \* shutdown invocations explored where the manager is not shared

\* ------------------------------------------------------------------ inputs
ServiceNames == {"svc-A", "svc-B"}
AttrChoices == {{}, {<<"env", "dev">>}}
\* Display text of the error a provider's shutdown() returned ({e})
ErrorTexts == {"err"}
Outcomes == {"Ok"} \cup ErrorTexts
Timeouts == {"None", "Some"}
\* which exporter's build() returns Err during initialization
BuildFailures == {"none", "logs", "traces", "metrics"}

Unset == [set |-> FALSE, service_name |-> "", attributes |-> {}]
NoResult == [kind |-> "none", msg |-> <<>>]
Ok == [kind |-> "Ok", msg |-> <<>>]
ShutdownTimeout == [kind |-> "ShutdownTimeout", msg |-> <<>>]

\* ------------------------------------------------------------ errors.rs
TracerShutdown(s) == [kind |-> "TracerShutdown", msg |-> s]

MeterShutdown(s) == [kind |-> "MeterShutdown", msg |-> s]

LoggerShutdown(s) == [kind |-> "LoggerShutdown", msg |-> s]

MultipleShutdownFailures(s) == [kind |-> "MultipleShutdownFailures", msg |-> s]

TaskJoin(cause) == [kind |-> "TaskJoin", msg |-> <<cause>>]

\* ------------------------------------------------- the shutdown sequence
\* The name each provider carries in the pushed error line.
Label(b) ==
    CASE b = "tracer" -> "tracer provider"
      [] b = "meter"  -> "meter provider"
      [] b = "logger" -> "logger provider"

\* NextPc with the logger attempted before the meter.
NextPcReordered(b, outcome) ==
    CASE b = "tracer" -> "logger"
      [] b = "logger" -> "meter"
      [] b = "meter"  -> "done"

\* NextPc returning early on the first failure.
NextPcFailFast(b, outcome) ==
    IF outcome # "Ok" THEN "done"
    ELSE CASE b = "tracer" -> "meter"
           [] b = "meter"  -> "logger"
           [] b = "logger" -> "done"

\* The statement reached after the attempt on provider b returned outcome:
\* the three if-lets follow one another, whatever the outcomes.
NextPc(b, outcome) ==
    CASE b = "tracer" -> "meter"
      [] b = "meter"  -> "logger"
      [] b = "logger" -> "done"

\* The first provider the sequence attempts.
FirstPc == "tracer"

\* PushError inserting the new line at the front of the list.
PushErrorFront(shutdown_errors, b, outcome) ==
    IF outcome = "Ok" THEN shutdown_errors
    ELSE <<<<Label(b), ": ", outcome>>>> \o shutdown_errors

\* if let Err(e) = x.shutdown() { shutdown_errors.push(format!("x provider: {e}")) }
PushError(shutdown_errors, b, outcome) ==
    IF outcome = "Ok" THEN shutdown_errors
    ELSE Append(shutdown_errors, <<Label(b), ": ", outcome>>)

\* Vec<String>::join("\n")
RECURSIVE Join(_)
Join(lines) ==
    IF lines = <<>> THEN <<>>
    ELSE IF Len(lines) = 1 THEN Head(lines)
    ELSE Head(lines) \o <<"\n">> \o Join(Tail(lines))

\* Aggregate reporting the first failure only.
AggregateFirstOnly(shutdown_errors) ==
    IF shutdown_errors # <<>>
    THEN MultipleShutdownFailures(Head(shutdown_errors))
    ELSE Ok

\* Aggregate surfacing a lone failure as the error of its provider.
AggregateLoneFailure(shutdown_errors) ==
    IF shutdown_errors = <<>> THEN Ok
    ELSE IF Len(shutdown_errors) > 1
         THEN MultipleShutdownFailures(Join(shutdown_errors))
    ELSE CASE shutdown_errors[1][1] = "tracer provider" -> TracerShutdown(<<shutdown_errors[1][3]>>)
           [] shutdown_errors[1][1] = "meter provider"  -> MeterShutdown(<<shutdown_errors[1][3]>>)
           [] shutdown_errors[1][1] = "logger provider" -> LoggerShutdown(<<shutdown_errors[1][3]>>)

\* if !shutdown_errors.is_empty() { return Err(MultipleShutdownFailures(..)) } Ok(())
Aggregate(shutdown_errors) ==
    IF shutdown_errors # <<>>
    THEN MultipleShutdownFailures(Join(shutdown_errors))
    ELSE Ok

\* ------------------------------------------------------------ the cache
BuildResource(service_name, attrs) ==
    [set |-> TRUE, service_name |-> service_name, attributes |-> attrs]

\* GetOrInit building the descriptor on every call.
GetOrInitRebuild(cell, service_name, attrs) == BuildResource(service_name, attrs)

\* GetOrInit adding a later caller's attributes to the stored descriptor.
GetOrInitMerge(cell, service_name, attrs) ==
    IF cell.set THEN [cell EXCEPT !.attributes = @ \cup attrs]
    ELSE BuildResource(service_name, attrs)

\* OnceLock::get_or_init: the closure runs only when the cell is empty.
GetOrInit(cell, service_name, attrs) ==
    IF cell.set THEN cell ELSE BuildResource(service_name, attrs)

\* ------------------------------------------------------- initialization
\* PanicsAt with an init() that tolerates an installed subscriber.
PanicsAtTryInit(fails, subscriber_set) ==
    IF fails = "logs" THEN "init_logs"
    ELSE IF fails = "traces" THEN "init_traces"
    ELSE IF fails = "metrics" THEN "init_metrics"
    ELSE "none"

\* PanicsAt with exporters unwrapped leniently (a failed build() is passed over).
PanicsAtLenient(fails, subscriber_set) ==
    IF subscriber_set THEN "subscriber" ELSE "none"

\* The statement of initialize_telemetry that panics, "none" when it returns:
\* each init_* unwraps its exporter with expect(), and registry().init()
\* panics when a global default subscriber is already installed.
PanicsAt(fails, subscriber_set) ==
    IF fails = "logs" THEN "init_logs"
    ELSE IF subscriber_set THEN "subscriber"
    ELSE IF fails = "traces" THEN "init_traces"
    ELSE IF fails = "metrics" THEN "init_metrics"
    ELSE "none"

\* The exporter whose build() returned Err in a call that ran up to the
\* panic at `at` (or to its end): init_logs is always reached, init_traces
\* after the subscriber was installed, init_metrics after init_traces.
BuildErr(fails, at) ==
    IF fails = "logs" THEN "logs"
    ELSE IF fails = "traces" /\ at \in {"init_traces", "init_metrics", "none"} THEN "traces"
    ELSE IF fails = "metrics" /\ at \in {"init_metrics", "none"} THEN "metrics"
    ELSE "none"

\* A provider built by init_traces / init_metrics / init_logs.
Provider(resource) == [resource |-> resource, shutdowns |-> 0]

\* OtelManager { logger, tracer, meter }
OtelManager(resource) ==
    [logger |-> Provider(resource),
     meter  |-> Provider(resource),
     tracer |-> Provider(resource)]

\* initialize_telemetry is entered with its arguments.
InitializeTelemetry(service_name, attributes) ==
    /\ Len(inits) < MaxInits
    /\ Len(inits) + Len(calls) < MaxOps
    /\ inits' = Append(inits,
          [service_name |-> service_name, attributes |-> attributes,
           sequential |-> \A j \in DOMAIN inits :
                             inits[j].pc \in {"returned", "panicked"},
           pc |-> "get_resource", at |-> "none", resource |-> Unset,
           manager |-> 0, failed |-> "none"])
    /\ UNCHANGED <<RESOURCE, subscriber, global, managers, calls>>

\* let resource = get_resource(service_name, attributes);
get_resource(i) ==
    /\ i \in DOMAIN inits
    /\ inits[i].pc = "get_resource"
    /\ RESOURCE' = GetOrInit(RESOURCE, inits[i].service_name, inits[i].attributes)
    /\ inits' = [inits EXCEPT ![i].resource = RESOURCE', ![i].pc = "build"]
    /\ UNCHANGED <<subscriber, global, managers, calls>>

\* The rest of initialize_telemetry: the three providers, the subscriber and
\* the global providers, up to the returned manager or the panic; fails names
\* the exporter whose build() returns Err, if any; failed is history, the
\* exporter whose build() did return Err in this call.
BuildProviders(i, fails) ==
    /\ i \in DOMAIN inits
    /\ inits[i].pc = "build"
    /\ LET at == PanicsAt(fails, subscriber)
           m  == Len(managers) + 1
       IN /\ subscriber' = (subscriber \/ at \in {"init_traces", "init_metrics", "none"})
          /\ global' = [tracer |-> IF at \in {"init_metrics", "none"}
                                   THEN i ELSE global.tracer,
                        meter  |-> IF at = "none" THEN i ELSE global.meter]
          /\ IF at = "none"
             THEN /\ managers' = Append(managers, OtelManager(inits[i].resource))
                  /\ inits' = [inits EXCEPT ![i].pc = "returned", ![i].manager = m,
                                            ![i].failed = BuildErr(fails, at)]
             ELSE /\ managers' = managers
                  /\ inits' = [inits EXCEPT ![i].pc = "panicked", ![i].at = at,
                                            ![i].failed = BuildErr(fails, at)]
    /\ UNCHANGED <<RESOURCE, calls>>

\* ------------------------------------------------------- shutdown calls
Backends == {"tracer", "meter", "logger"}

\* NewCall of a manager that remembers a completed shutdown and answers
\* Ok without attempting its providers again.
NewCallIdempotent(path, timeout, m, cpc, pc, result) ==
    LET again == \E c \in DOMAIN calls : calls[c].mgr = m /\ calls[c].pc = "done"
    IN [path |-> path, timeout |-> timeout, mgr |-> m,
        cpc |-> IF again /\ path = "shutdown" THEN "returned" ELSE cpc,
        timer |-> FALSE,
        result |-> IF again /\ path = "shutdown" THEN Ok ELSE result,
        pc |-> IF again THEN "done" ELSE pc,
        busy |-> FALSE, shutdown_errors |-> <<>>, log |-> <<>>,
        ret |-> IF again THEN Ok ELSE NoResult,
        after |-> {c \in DOMAIN calls : calls[c].cpc = "returned"},
        repeat |-> {}]

\* A call as it is entered. after and repeat are history: the calls that had
\* returned to their callers when this one was made, and the providers this
\* call found already asked to shut down when it entered their shutdown().
NewCall(path, timeout, m, cpc, pc, result) ==
    [path |-> path, timeout |-> timeout, mgr |-> m, cpc |-> cpc,
     timer |-> FALSE, result |-> result,
     pc |-> pc, busy |-> FALSE, shutdown_errors |-> <<>>, log |-> <<>>,
     ret |-> NoResult,
     after |-> {c \in DOMAIN calls : calls[c].cpc = "returned"},
     repeat |-> {}]

\* The shutdown sequence of call c has ended, normally or not.
Ended(call) == call.pc \in {"done", "panicked", "aborted"}

\* JoinResult dropping the closure's own result.
JoinResultUnit(call) ==
    IF call.pc = "done" THEN Ok ELSE TaskJoin(call.pc)

\* JoinResult reporting a JoinError as a shutdown failure.
JoinResultAsFailure(call) ==
    IF call.pc = "done" THEN call.ret ELSE MultipleShutdownFailures(<<call.pc>>)

\* spawn_blocking(..).await? : the closure's result, or the JoinError
JoinResult(call) ==
    IF call.pc = "done" THEN call.ret ELSE TaskJoin(call.pc)

\* PollResult with the timer polled before the shutdown future.
PollResultTimerFirst(call, elapsed) ==
    IF call.timeout = "Some" /\ elapsed THEN ShutdownTimeout
    ELSE IF Ended(call) THEN JoinResult(call)
    ELSE NoResult

\* PollResult waiting for the shutdown future alone.
PollResultNoTimer(call, elapsed) ==
    IF Ended(call) THEN JoinResult(call) ELSE NoResult

\* match timeout { Some(d) => timeout(d, fut).await.map_err(..)?, None => fut.await }
\* One poll of the caller's future: the shutdown future is polled first, the
\* timer after it. NoResult stands for Poll::Pending.
PollResult(call, elapsed) ==
    IF Ended(call) THEN JoinResult(call)
    ELSE IF call.timeout = "Some" /\ elapsed THEN ShutdownTimeout
    ELSE NoResult

\* Returned aborting the closure when the caller gives up.
ReturnedCancelling(call, r) ==
    [call EXCEPT !.result = r,
                 !.cpc = IF r = NoResult THEN "awaiting" ELSE "returned",
                 !.pc = IF r = ShutdownTimeout THEN "aborted" ELSE @,
                 !.busy = IF r = ShutdownTimeout THEN FALSE ELSE @]

\* The call after a poll of the caller's future produced r: with a result the
\* future is dropped, and the JoinHandle with it, which detaches the closure.
Returned(call, r) ==
    [call EXCEPT !.result = r,
                 !.cpc = IF r = NoResult THEN "awaiting" ELSE "returned"]

\* pub fn shutdown(&self): the caller's thread enters the sequence.
shutdown(m) ==
    /\ Len(calls) < MaxCalls
    /\ Len(inits) + Len(calls) < MaxOps
    /\ m \in DOMAIN managers
    /\ calls' = Append(calls, NewCall("shutdown", "None", m, "running", FirstPc, NoResult))
    /\ UNCHANGED <<RESOURCE, subscriber, global, inits, managers>>

\* async_shutdown looking at the deadline before it polls the shutdown
\* future: with the timer elapsed no closure is submitted.
async_shutdownDeadlineFirst(m, timeout, elapsed) ==
    /\ Len(calls) < MaxCalls
    /\ Len(inits) + Len(calls) < MaxOps
    /\ m \in DOMAIN managers
    /\ LET late == timeout = "Some" /\ elapsed
           spawned == NewCall("async_shutdown", timeout, m, "awaiting",
                              IF late THEN "aborted" ELSE "queued", NoResult)
           polled == [spawned EXCEPT !.timer = late]
       IN calls' = Append(calls, Returned(polled, IF late THEN ShutdownTimeout
                                                  ELSE PollResult(polled, elapsed)))
    /\ UNCHANGED <<RESOURCE, subscriber, global, inits, managers>>

\* pub async fn async_shutdown(&self, timeout), awaited: the first poll
\* clones the providers, submits the closure to the blocking pool and, with
\* Some(duration), polls the timer, which may have elapsed already.
async_shutdown(m, timeout, elapsed) ==
    /\ Len(calls) < MaxCalls
    /\ Len(inits) + Len(calls) < MaxOps
    /\ m \in DOMAIN managers
    /\ LET spawned == NewCall("async_shutdown", timeout, m, "awaiting", "queued", NoResult)
           polled == [spawned EXCEPT !.timer = (timeout = "Some" /\ elapsed)]
       IN calls' = Append(calls, Returned(polled, PollResult(polled, elapsed)))
    /\ UNCHANGED <<RESOURCE, subscriber, global, inits, managers>>

\* The blocking pool starts the closure.
WorkerStart(c) ==
    /\ c \in DOMAIN calls
    /\ calls[c].pc = "queued"
    /\ calls' = [calls EXCEPT ![c].pc = FirstPc]
    /\ UNCHANGED <<RESOURCE, subscriber, global, inits, managers>>

\* The runtime drops the closure before it started (JoinError: cancelled).
WorkerAbort(c) ==
    /\ c \in DOMAIN calls
    /\ calls[c].pc = "queued"
    /\ calls' = [calls EXCEPT ![c].pc = "aborted"]
    /\ UNCHANGED <<RESOURCE, subscriber, global, inits, managers>>

\* BackendCall on a pipeline of the call's own, which no other call has
\* asked to shut down.
BackendCallOwnPipeline(c) ==
    /\ c \in DOMAIN calls
    /\ calls[c].pc \in Backends
    /\ ~calls[c].busy
    /\ calls' = [calls EXCEPT ![c].busy = TRUE,
                              ![c].log = Append(@, <<calls[c].pc, "call">>)]
    /\ UNCHANGED <<RESOURCE, subscriber, global, inits, managers>>

\* x.shutdown() is called on the provider the sequence has reached: the
\* manager's own provider in shutdown(), its clone in the closure, which is
\* a handle on the same provider. log is the history of the call:
\* <<provider, "call">> when its shutdown() is entered, <<provider, outcome>>
\* when it returns.
BackendCall(c) ==
    /\ c \in DOMAIN calls
    /\ calls[c].pc \in Backends
    /\ ~calls[c].busy
    /\ LET b == calls[c].pc
           m == calls[c].mgr
       IN /\ calls' = [calls EXCEPT ![c].busy = TRUE,
                                    ![c].log = Append(@, <<b, "call">>),
                                    ![c].repeat = IF managers[m][b].shutdowns > 0
                                                  THEN @ \cup {b} ELSE @]
          /\ managers' = [managers EXCEPT ![m][b].shutdowns = @ + 1]
    /\ UNCHANGED <<RESOURCE, subscriber, global, inits>>

\* x.shutdown() returns outcome; the error, if any, is pushed, and after the
\* logger the sequence returns its result (on the caller's thread, to the caller).
BackendReturn(c, outcome) ==
    /\ c \in DOMAIN calls
    /\ calls[c].busy
    /\ LET b == calls[c].pc
           errs == PushError(calls[c].shutdown_errors, b, outcome)
           next == NextPc(b, outcome)
           ret == IF next = "done" THEN Aggregate(errs) ELSE NoResult
           own == calls[c].path = "shutdown" /\ next = "done"
       IN calls' = [calls EXCEPT ![c].busy = FALSE,
                                 ![c].log = Append(@, <<b, outcome>>),
                                 ![c].shutdown_errors = errs,
                                 ![c].pc = next,
                                 ![c].ret = ret,
                                 ![c].result = IF own THEN ret ELSE @,
                                 ![c].cpc = IF own THEN "returned" ELSE @]
    /\ UNCHANGED <<RESOURCE, subscriber, global, inits, managers>>

\* x.shutdown() panics: the thread running the sequence unwinds.
BackendPanic(c) ==
    /\ c \in DOMAIN calls
    /\ calls[c].busy
    /\ calls' = [calls EXCEPT ![c].busy = FALSE,
                              ![c].pc = "panicked",
                              ![c].cpc = IF calls[c].path = "shutdown"
                                         THEN "unwound" ELSE @]
    /\ UNCHANGED <<RESOURCE, subscriber, global, inits, managers>>

\* The timer of tokio::time::timeout(duration, ..) elapses.
TimerFire(c) ==
    /\ c \in DOMAIN calls
    /\ calls[c].timeout = "Some"
    /\ calls[c].cpc = "awaiting"
    /\ ~calls[c].timer
    /\ calls' = [calls EXCEPT ![c].timer = TRUE]
    /\ UNCHANGED <<RESOURCE, subscriber, global, inits, managers>>

\* Poll answering a wake-up by the timer with ShutdownTimeout, without a
\* look at the shutdown future.
PollOnTimerWake(c) ==
    /\ c \in DOMAIN calls
    /\ calls[c].cpc = "awaiting"
    /\ Ended(calls[c]) \/ calls[c].timer
    /\ calls' = [calls EXCEPT ![c] = Returned(@, IF @.timer THEN ShutdownTimeout
                                                  ELSE PollResult(@, FALSE))]
    /\ UNCHANGED <<RESOURCE, subscriber, global, inits, managers>>

\* The caller's future is woken (by the JoinHandle or by the timer) and polled.
Poll(c) ==
    /\ c \in DOMAIN calls
    /\ calls[c].cpc = "awaiting"
    /\ Ended(calls[c]) \/ calls[c].timer
    /\ calls' = [calls EXCEPT ![c] = Returned(@, PollResult(@, @.timer))]
    /\ UNCHANGED <<RESOURCE, subscriber, global, inits, managers>>

\* ---------------------------------------------------------------- system
Init ==
    /\ RESOURCE = Unset
    /\ subscriber = FALSE
    /\ global = [tracer |-> 0, meter |-> 0]
    /\ inits = <<>>
    /\ managers = <<>>
    /\ calls = <<>>

\* The operations of initialization.
InitNext ==
    \/ \E n \in ServiceNames, a \in AttrChoices : InitializeTelemetry(n, a)
    \/ \E i \in 1..MaxInits : get_resource(i)
    \/ \E i \in 1..MaxInits, f \in BuildFailures : BuildProviders(i, f)

\* The shutdown operations of a manager.
ShutdownNext ==
    \/ \E m \in 1..MaxInits : shutdown(m)
    \/ \E m \in 1..MaxInits, t \in Timeouts, e \in BOOLEAN : async_shutdown(m, t, e)
    \/ \E c \in 1..MaxCalls : WorkerStart(c)
    \/ \E c \in 1..MaxCalls : WorkerAbort(c)
    \/ \E c \in 1..MaxCalls : BackendCall(c)
    \/ \E c \in 1..MaxCalls, o \in Outcomes : BackendReturn(c, o)
    \/ \E c \in 1..MaxCalls : BackendPanic(c)
    \/ \E c \in 1..MaxCalls : TimerFire(c)
    \/ \E c \in 1..MaxCalls : Poll(c)

Next == InitNext \/ ShutdownNext

Spec == Init /\ [][Next]_vars

\* Initialization alone: no shutdown is requested.
InitSpec == Init /\ [][InitNext]_vars

\* The process of main.rs after its call of initialize_telemetry has returned:
\* one manager, no shutdown requested yet.
MainResource == BuildResource("blah", {<<"env", "dev">>})

ShutdownInit ==
    /\ RESOURCE = MainResource
    /\ subscriber = TRUE
    /\ global = [tracer |-> 1, meter |-> 1]
    /\ inits = <<[service_name |-> "blah", attributes |-> {<<"env", "dev">>},
                  sequential |-> TRUE, pc |-> "returned", at |-> "none",
                  resource |-> MainResource, manager |-> 1, failed |-> "none"]>>
    /\ managers = <<OtelManager(MainResource)>>
    /\ calls = <<>>

\* main.rs goes on with its one call to shutdown(): the manager has one user.
ShutdownSpec == ShutdownInit /\ [][ShutdownNext /\ Len(calls') <= MaxSolo]_vars

\* The manager is shared (its methods take &self): calls on it may follow
\* one another and overlap.
SharedShutdownSpec == ShutdownInit /\ [][ShutdownNext]_vars

\* The blocking pool runs a submitted closure, and the thread in a shutdown
\* sequence goes on: it enters the next shutdown(), and a shutdown() that was
\* entered returns (or panics, of which nothing is assumed).
LiveShutdownSpec ==
    /\ ShutdownSpec
    /\ \A c \in 1..MaxCalls :
          /\ WF_vars(WorkerStart(c))
          /\ WF_vars(BackendCall(c))
          /\ WF_vars(\E o \in Outcomes : BackendReturn(c, o))

\* The async runtime goes on while closures run on the blocking pool: a timer
\* that was set elapses, and a woken caller is polled. Nothing is assumed of
\* the pool or of the providers: a shutdown() that was entered may never return.
TimedShutdownSpec ==
    /\ ShutdownSpec
    /\ \A c \in 1..MaxCalls :
          /\ WF_vars(TimerFire(c))
          /\ WF_vars(Poll(c))

\* ================================================================ claims
Range(f) == {f[k] : k \in DOMAIN f}

\* The providers whose shutdown() returned an error / Ok in this call.
Failed(call) ==
    {b \in Backends : \E k \in DOMAIN call.log :
        call.log[k][1] = b /\ call.log[k][2] \in ErrorTexts}

Succeeded(call) ==
    {b \in Backends : \E k \in DOMAIN call.log : call.log[k] = <<b, "Ok">>}

\* The name by which an error message refers to a provider.
NameOf(b) ==
    CASE b = "tracer" -> "tracer provider"
      [] b = "meter"  -> "meter provider"
      [] b = "logger" -> "logger provider"

\* The position of a provider in the order trace, metric, log.
Rank(b) ==
    CASE b = "tracer" -> 1
      [] b = "meter"  -> 2
      [] b = "logger" -> 3

\* How often shutdown() of provider b was entered / has returned in this call.
Attempts(call, b) ==
    Cardinality({k \in DOMAIN call.log : call.log[k] = <<b, "call">>})

Returns(call, b) ==
    Cardinality({k \in DOMAIN call.log :
        call.log[k][1] = b /\ call.log[k][2] \in Outcomes})

\* C1: a returned blocking shutdown() is Ok exactly when no provider failed;
\* otherwise it is MultipleShutdownFailures and its message contains the
\* name of a provider exactly when that provider failed.
C1_AggregationCorrect ==
    \A c \in DOMAIN calls :
        LET call == calls[c] IN
        (call.path = "shutdown" /\ call.cpc = "returned") =>
            /\ (call.result = Ok) <=> (Failed(call) = {})
            /\ Failed(call) \cup Succeeded(call) = Backends
            /\ call.result # Ok =>
                  /\ call.result.kind = "MultipleShutdownFailures"
                  /\ \A b \in Backends :
                        (NameOf(b) \in Range(call.result.msg)) <=> (b \in Failed(call))

\* A blocking call returned after tracer and logger failed and the meter succeeded.
C1_Witness ==
    \E c \in DOMAIN calls :
        /\ calls[c].path = "shutdown"
        /\ calls[c].cpc = "returned"
        /\ Failed(calls[c]) = {"tracer", "logger"}
        /\ Succeeded(calls[c]) = {"meter"}

\* C2: on both paths the events of one call are ordered trace, metric, log:
\* no event of a provider follows an event of a later provider, and the
\* shutdown() of a provider is entered only after the shutdown() of the
\* provider before it has returned, whatever it returned.
C2_OrderTraceMetricLog ==
    \A c \in DOMAIN calls :
        LET log == calls[c].log IN
        \A j \in DOMAIN log :
            /\ \A i \in 1..(j - 1) : Rank(log[i][1]) <= Rank(log[j][1])
            /\ (log[j][2] = "call" /\ Rank(log[j][1]) > 1) =>
                  \E i \in 1..(j - 1) :
                      /\ Rank(log[i][1]) = Rank(log[j][1]) - 1
                      /\ log[i][2] \in Outcomes
            /\ (log[j][2] = "call" /\ j > 1) => log[j - 1][2] \in Outcomes

\* On the worker path the tracer failed and the logger's shutdown() was entered.
C2_Witness ==
    \E c \in DOMAIN calls :
        /\ calls[c].path = "async_shutdown"
        /\ "tracer" \in Failed(calls[c])
        /\ Attempts(calls[c], "logger") = 1

\* C3: no shutdown() of a provider is entered twice in one call, and a
\* sequence that ran to its end (a blocking call that returned, a worker that
\* completed) has entered and left the shutdown() of each of the three
\* providers exactly once, whatever the earlier outcomes were.
C3_AllThreeExactlyOnce ==
    \A c \in DOMAIN calls :
        LET call == calls[c] IN
        /\ \A b \in Backends : Attempts(call, b) <= 1 /\ Returns(call, b) <= Attempts(call, b)
        /\ (call.path = "shutdown" /\ call.cpc = "returned") => call.pc = "done"
        /\ call.pc = "done" =>
              \A b \in Backends : Attempts(call, b) = 1 /\ Returns(call, b) = 1

\* A worker completed although its first two attempts failed.
C3_Witness ==
    \E c \in DOMAIN calls :
        /\ calls[c].path = "async_shutdown"
        /\ calls[c].pc = "done"
        /\ {"tracer", "meter"} \subseteq Failed(calls[c])

\* The error text provider b returned in this call.
ErrorOf(call, b) ==
    CHOOSE e \in ErrorTexts : \E k \in DOMAIN call.log : call.log[k] = <<b, e>>

\* The result documented for a sequence that ran to its end: Ok when nothing
\* failed, otherwise the aggregate listing "<name>: <error>" of each failed
\* provider in the order trace, metric, log, one per line.
RECURSIVE ExpectedLines(_, _)
ExpectedLines(call, order) ==
    IF order = <<>> THEN <<>>
    ELSE LET rest == ExpectedLines(call, Tail(order))
             b == Head(order)
         IN IF b \notin Failed(call) THEN rest
            ELSE <<NameOf(b), ": ", ErrorOf(call, b)>>
                 \o (IF rest = <<>> THEN <<>> ELSE <<"\n">> \o rest)

ExpectedResult(call) ==
    IF Failed(call) = {} THEN [kind |-> "Ok", msg |-> <<>>]
    ELSE [kind |-> "MultipleShutdownFailures",
          msg |-> ExpectedLines(call, <<"tracer", "meter", "logger">>)]

\* Call c of the next state has just returned to its caller.
JustReturned(c) ==
    /\ c \in DOMAIN calls'
    /\ calls'[c].path = "async_shutdown"
    /\ calls'[c].cpc = "returned"
    /\ c \in DOMAIN calls => calls[c].cpc = "awaiting"

\* The shutdown sequence as the caller's poll found it (not yet submitted
\* to the pool when the call is new).
RunAtPoll(c) == IF c \in DOMAIN calls THEN calls[c].pc ELSE "queued"

\* C4: async_shutdown(Some(timeout)) returns, at the poll that resumes the
\* caller, the result of the worker's sequence if that has completed (Ok
\* when no provider failed, the aggregate otherwise), and ShutdownTimeout,
\* never an aggregate, if the timer has elapsed and the worker has not
\* ended, whatever the worker's providers have returned so far.
C4_RaceDecidesOutcome ==
    [][\A c \in 1..MaxCalls :
        (JustReturned(c) /\ calls'[c].timeout = "Some") =>
            LET new == calls'[c] IN
            /\ RunAtPoll(c) = "done" =>
                  /\ new.result.kind = IF Failed(new) = {} THEN "Ok"
                                       ELSE "MultipleShutdownFailures"
                  /\ new.result = new.ret
            /\ RunAtPoll(c) \in Backends \cup {"queued"} =>
                  /\ new.timer
                  /\ new.result = [kind |-> "ShutdownTimeout", msg |-> <<>>]
       ]_vars

\* The caller got ShutdownTimeout when two providers had already failed in the worker.
C4_Witness ==
    \E c \in DOMAIN calls :
        /\ calls[c].timeout = "Some"
        /\ calls[c].result.kind = "ShutdownTimeout"
        /\ calls[c].pc = "logger"
        /\ ~calls[c].busy
        /\ Failed(calls[c]) = {"tracer", "meter"}

\* The part of a call that belongs to the worker.
Run(call) == <<call.pc, call.busy, call.shutdown_errors, call.log, call.ret>>

\* The providers in the order their shutdown() was entered.
RECURSIVE Entered(_)
Entered(log) ==
    IF log = <<>> THEN <<>>
    ELSE IF Head(log)[2] = "call" THEN <<Head(log)[1]>> \o Entered(Tail(log))
    ELSE Entered(Tail(log))

\* C5: the poll that returns ShutdownTimeout leaves the worker's sequence as
\* it was, not ended; the caller's ShutdownTimeout is never replaced by a
\* later result; the worker then runs on until its sequence ends (it
\* completes unless a shutdown() panics or the closure never starts), and a
\* completed sequence has entered tracer, meter, logger in this order.
C5_TimeoutDoesNotCancel ==
    /\ [][\A c \in 1..MaxCalls :
            (JustReturned(c) /\ calls'[c].result.kind = "ShutdownTimeout") =>
                /\ calls'[c].pc \in Backends \cup {"queued"}
                /\ c \in DOMAIN calls => Run(calls'[c]) = Run(calls[c])
         ]_vars
    /\ [][\A c \in DOMAIN calls :
            calls[c].result.kind = "ShutdownTimeout" =>
                calls'[c].result = calls[c].result /\ calls'[c].cpc = "returned"
         ]_vars
    /\ \A c \in 1..MaxCalls :
          (c \in DOMAIN calls /\ calls[c].result.kind = "ShutdownTimeout")
              ~> (c \in DOMAIN calls /\ Ended(calls[c]))
    /\ [](\A c \in DOMAIN calls :
            (calls[c].result.kind = "ShutdownTimeout" /\ calls[c].pc = "done") =>
                Entered(calls[c].log) = <<"tracer", "meter", "logger">>)

\* The caller holds ShutdownTimeout while the meter's shutdown() is in progress.
C5_Witness ==
    \E c \in DOMAIN calls :
        /\ calls[c].cpc = "returned"
        /\ calls[c].result.kind = "ShutdownTimeout"
        /\ calls[c].pc = "meter"
        /\ calls[c].busy

\* C6: async_shutdown(None) never returns ShutdownTimeout and returns only
\* after the worker ended; when the worker completed, its result is the one
\* documented for the providers' outcomes, which is also what a returned
\* blocking shutdown() holds, so the two paths agree on equal outcomes.
C6_NoTimeoutSameAsBlocking ==
    /\ \A c \in DOMAIN calls :
          LET call == calls[c] IN
          /\ (call.path = "async_shutdown" /\ call.timeout = "None") =>
                /\ call.result.kind # "ShutdownTimeout"
                /\ call.cpc = "returned" => Ended(call)
                /\ (call.cpc = "returned" /\ call.pc = "done") =>
                      call.result = ExpectedResult(call)
          /\ (call.path = "shutdown" /\ call.cpc = "returned") =>
                call.result = ExpectedResult(call)
    /\ \A c, d \in DOMAIN calls :
          (/\ calls[c].path = "shutdown" /\ calls[c].cpc = "returned"
           /\ calls[d].path = "async_shutdown" /\ calls[d].timeout = "None"
           /\ calls[d].cpc = "returned" /\ calls[d].pc = "done"
           /\ \A b \in Backends :
                 /\ (b \in Failed(calls[c])) <=> (b \in Failed(calls[d]))
                 /\ b \in Failed(calls[c]) => ErrorOf(calls[c], b) = ErrorOf(calls[d], b))
          => calls[c].result = calls[d].result

\* async_shutdown(None) returned the aggregate of a failed meter and logger.
C6_Witness ==
    \E c \in DOMAIN calls :
        /\ calls[c].path = "async_shutdown"
        /\ calls[c].timeout = "None"
        /\ calls[c].cpc = "returned"
        /\ Failed(calls[c]) = {"meter", "logger"}
        /\ calls[c].result.kind = "MultipleShutdownFailures"

\* C7: the poll that returns from async_shutdown returns TaskJoin exactly
\* when the worker was aborted or panicked; a worker that completed, with or
\* without failed providers, never yields TaskJoin, and no blocking call does.
C7_TaskJoinIffWorkerFailed ==
    /\ [][\A c \in 1..MaxCalls :
            JustReturned(c) =>
                ((calls'[c].result.kind = "TaskJoin")
                    <=> (RunAtPoll(c) \in {"panicked", "aborted"}))
         ]_vars
    /\ [](\A c \in DOMAIN calls :
            calls[c].result.kind = "TaskJoin" =>
                /\ calls[c].path = "async_shutdown"
                /\ calls[c].pc \in {"panicked", "aborted"})

\* TaskJoin was returned, before the timer elapsed, for a worker that
\* panicked after a provider had failed.
C7_Witness ==
    \E c \in DOMAIN calls :
        /\ calls[c].timeout = "Some"
        /\ ~calls[c].timer
        /\ calls[c].result.kind = "TaskJoin"
        /\ calls[c].pc = "panicked"
        /\ Failed(calls[c]) # {}

\* C8: a returned blocking shutdown() holds Ok or MultipleShutdownFailures;
\* ShutdownTimeout is held only by async_shutdown(Some(..)) calls whose timer
\* elapsed; no call holds TracerShutdown, MeterShutdown or LoggerShutdown;
\* and a completed sequence with failed providers, even with one, yields
\* MultipleShutdownFailures.
C8_OutcomeByPath ==
    \A c \in DOMAIN calls :
        LET call == calls[c] IN
        /\ (call.path = "shutdown" /\ call.cpc = "returned") =>
              call.result.kind \in {"Ok", "MultipleShutdownFailures"}
        /\ call.result.kind = "ShutdownTimeout" =>
              call.path = "async_shutdown" /\ call.timeout = "Some" /\ call.timer
        /\ call.result.kind \notin {"TracerShutdown", "MeterShutdown", "LoggerShutdown"}
        /\ call.ret.kind \notin {"TracerShutdown", "MeterShutdown", "LoggerShutdown"}
        /\ (call.pc = "done" /\ Failed(call) # {}) =>
              call.ret.kind = "MultipleShutdownFailures"

\* A blocking call returned with the meter as the only failed provider.
C8_Witness ==
    \E c \in DOMAIN calls :
        /\ calls[c].path = "shutdown"
        /\ calls[c].cpc = "returned"
        /\ Failed(calls[c]) = {"meter"}
        /\ calls[c].result.kind = "MultipleShutdownFailures"

\* The descriptor documented for the arguments of an initialize_telemetry call.
DescriptorOf(init) ==
    [set |-> TRUE, service_name |-> init.service_name, attributes |-> init.attributes]

\* initialize_telemetry call i has got its descriptor from get_resource.
HasResource(i) == inits[i].pc # "get_resource"

\* C9: the get_resource call that finds the cache empty stores the descriptor
\* of its own arguments; every other one leaves the cache as it is and
\* returns the stored value; once set, the cache is changed by no step of
\* the system, shutdown included; so with calls made one after the other the
\* cache holds the descriptor of the first call's arguments.
C9_FirstCallWins ==
    /\ [][\A i \in DOMAIN inits :
            (~HasResource(i) /\ inits'[i].pc # "get_resource") =>
                /\ RESOURCE' = IF RESOURCE.set THEN RESOURCE ELSE DescriptorOf(inits[i])
                /\ inits'[i].resource = RESOURCE'
         ]_vars
    /\ [][RESOURCE.set => RESOURCE' = RESOURCE]_vars
    /\ [](\A i \in DOMAIN inits :
            HasResource(i) => RESOURCE.set /\ inits[i].resource = RESOURCE)
    /\ []((RESOURCE.set /\ \A i \in DOMAIN inits : inits[i].sequential) =>
            RESOURCE = DescriptorOf(inits[1]))
    /\ [](\A m \in DOMAIN managers : \A b \in Backends :
            managers[m][b].resource = RESOURCE)

\* Two calls, one after the other, with different names and attributes, got
\* the descriptor of the first, and a shutdown has run to its end since.
C9_Witness ==
    /\ Len(inits) = 2
    /\ inits[2].sequential
    /\ inits[2].service_name # inits[1].service_name
    /\ inits[2].attributes # inits[1].attributes
    /\ HasResource(2)
    /\ inits[2].resource = DescriptorOf(inits[1])
    /\ \E c \in DOMAIN calls : calls[c].pc = "done"

\* initialize_telemetry("svc-A", ..) has ended, then initialize_telemetry(
\* "svc-B", ..) was called and has ended, and every exporter was constructed.
TwoInitializations ==
    /\ Len(inits) = 2
    /\ inits[1].service_name = "svc-A"
    /\ inits[2].service_name = "svc-B"
    /\ inits[2].sequential
    /\ \A i \in DOMAIN inits :
          /\ inits[i].pc \in {"returned", "panicked"}
          /\ inits[i].at \notin {"init_logs", "init_traces", "init_metrics"}

\* The service name of the descriptor in each provider of manager m.
ServiceNamesOf(m) == {managers[m][b].resource.service_name : b \in Backends}

\* C10 as stated: both calls yield a manager, each built with the descriptor
\* whose service name is "svc-A".
C10_TwoManagersSvcA ==
    TwoInitializations =>
        \A i \in DOMAIN inits :
            /\ inits[i].pc = "returned"
            /\ inits[i].manager \in DOMAIN managers
            /\ ServiceNamesOf(inits[i].manager) = {"svc-A"}

\* C10 (amended): the first call yields a manager built with the descriptor
\* whose service name is "svc-A"; the second call gets that same descriptor
\* but panics when it installs the global subscriber, and yields no manager.
C10_OneManagerSvcA ==
    /\ Len(managers) <= 1
    /\ TwoInitializations =>
          /\ inits[1].pc = "returned"
          /\ inits[1].manager = 1
          /\ Len(managers) = 1
          /\ ServiceNamesOf(1) = {"svc-A"}
          /\ inits[2].pc = "panicked"
          /\ inits[2].at = "subscriber"
          /\ inits[2].manager = 0
          /\ inits[2].resource.service_name = "svc-A"

\* Both calls have ended, the second with other attributes than the first.
C10_Witness ==
    /\ TwoInitializations
    /\ inits[2].attributes # inits[1].attributes
    /\ inits[2].pc = "panicked"

\* Call c is an async_shutdown call made with this timeout.
IsAsync(c, timeout) ==
    /\ c \in DOMAIN calls
    /\ calls[c].path = "async_shutdown"
    /\ calls[c].timeout = timeout

\* C11: an async_shutdown(Some(timeout)) call always eventually returns to
\* its caller, whatever the worker and the providers do, a shutdown() that
\* never returns included; an async_shutdown(None) call has returned only
\* if the worker's sequence has ended (and, unless the worker panicked or
\* was aborted, only after each of the three shutdown() calls returned),
\* and it goes on waiting over every step that does not end the sequence.
C11_TimeoutBoundsTheWait ==
    /\ \A c \in 1..MaxCalls :
          IsAsync(c, "Some") ~> (IsAsync(c, "Some") /\ calls[c].cpc = "returned")
    /\ [](\A c \in 1..MaxCalls :
            (IsAsync(c, "None") /\ calls[c].cpc = "returned") =>
                /\ Ended(calls[c])
                /\ calls[c].result.kind \in {"Ok", "MultipleShutdownFailures"} =>
                      \A b \in Backends : Returns(calls[c], b) = 1)
    /\ [][\A c \in 1..MaxCalls :
            (IsAsync(c, "None") /\ ~Ended(calls'[c])) => calls'[c].cpc = "awaiting"
         ]_vars

\* The caller of async_shutdown(Some(..)) has returned, its timer elapsed,
\* while the tracer's shutdown() is still in progress.
C11_Witness ==
    \E c \in DOMAIN calls :
        /\ IsAsync(c, "Some")
        /\ calls[c].timer
        /\ calls[c].cpc = "returned"
        /\ calls[c].pc = "tracer"
        /\ calls[c].busy

\* The calls on manager m whose sequence has entered shutdown() of provider b.
Callers(m, b) ==
    {c \in DOMAIN calls : calls[c].mgr = m /\ Attempts(calls[c], b) = 1}

\* C12: the manager keeps no record of an earlier shutdown. A call made
\* after another call on the same manager returned starts the sequence from
\* its beginning like any call, and a sequence that completed has entered
\* shutdown() of each of the three providers; every attempt of every call
\* reaches the one provider the manager and its clones share; a provider is
\* found already asked to shut down only when another call entered it, and
\* always when the call was made after another call had returned the result
\* of its sequence; and a completed call in which exactly the providers found already asked to
\* shut down failed returns the aggregate that names exactly those.
C12_NotIdempotent ==
    /\ [][\A c \in 1..MaxCalls :
            (c \notin DOMAIN calls /\ c \in DOMAIN calls') =>
                /\ calls'[c].pc = IF calls'[c].path = "shutdown" THEN "tracer" ELSE "queued"
                /\ calls'[c].log = <<>>
                /\ calls'[c].ret.kind = "none"
         ]_vars
    /\ [](\A d \in DOMAIN calls :
            LET call == calls[d] IN
            /\ call.pc = "done" => \A b \in Backends : Attempts(call, b) = 1
            /\ \A b \in Backends :
                  /\ managers[call.mgr][b].shutdowns = Cardinality(Callers(call.mgr, b))
                  /\ b \in call.repeat => Callers(call.mgr, b) \ {d} # {}
                  /\ (Attempts(call, b) = 1 /\ \E c \in call.after :
                          /\ calls[c].mgr = call.mgr
                          /\ calls[c].result.kind \in {"Ok", "MultipleShutdownFailures"})
                        => b \in call.repeat
            /\ (call.pc = "done" /\ call.repeat # {} /\ Failed(call) = call.repeat) =>
                  /\ call.ret.kind = "MultipleShutdownFailures"
                  /\ \A b \in Backends :
                        (NameOf(b) \in Range(call.ret.msg)) <=> (b \in call.repeat)
                  /\ (call.cpc = "returned" /\ call.result.kind # "ShutdownTimeout") =>
                        call.result = call.ret)

\* A blocking call returned Ok; a second call, made after that on the same
\* manager, found all three providers already shut down, each of them
\* failed, and it returned the aggregate failure.
C12_Witness ==
    /\ Len(calls) = 2
    /\ calls[1].path = "shutdown"
    /\ calls[1].result.kind = "Ok"
    /\ calls[2].mgr = calls[1].mgr
    /\ calls[2].after = {1}
    /\ calls[2].repeat = Backends
    /\ Failed(calls[2]) = Backends
    /\ calls[2].cpc = "returned"
    /\ calls[2].result.kind = "MultipleShutdownFailures"

\* The sequence of this call completed, and in it each provider succeeded
\* when it had not been asked to shut down before and failed when it had.
FirstSucceedsRepeatFails(call) ==
    /\ call.pc = "done"
    /\ Failed(call) = call.repeat
    /\ Succeeded(call) = Backends \ call.repeat

\* C13: of two calls on the same manager whose providers succeed on their
\* first shutdown and fail on a repeated one, each provider succeeds for
\* at most one, and for exactly one when no further call has entered that
\* provider; so the sequence of at least one of the two
\* yields the aggregate failure, which names exactly the providers the call
\* was second to reach, and that is what the call returns unless it timed
\* out before.
C13_DoubleShutdownFailures ==
    \A c, d \in DOMAIN calls :
        (/\ c # d
         /\ calls[c].mgr = calls[d].mgr
         /\ FirstSucceedsRepeatFails(calls[c])
         /\ FirstSucceedsRepeatFails(calls[d])) =>
            /\ \A b \in Backends :
                  /\ ~(b \in Succeeded(calls[c]) /\ b \in Succeeded(calls[d]))
                  /\ Callers(calls[c].mgr, b) \subseteq {c, d} =>
                        (b \in Succeeded(calls[c]) \/ b \in Succeeded(calls[d]))
            /\ \/ calls[c].ret.kind = "MultipleShutdownFailures"
               \/ calls[d].ret.kind = "MultipleShutdownFailures"
            /\ \A e \in {c, d} :
                  /\ (calls[e].ret.kind = "MultipleShutdownFailures") <=> (calls[e].repeat # {})
                  /\ \A b \in Backends :
                        (NameOf(b) \in Range(calls[e].ret.msg)) <=> (b \in calls[e].repeat)
                  /\ (calls[e].cpc = "returned" /\ calls[e].result.kind # "ShutdownTimeout")
                        => calls[e].result = calls[e].ret

\* A blocking call and an async call, made before the blocking one returned,
\* both returned an aggregate failure: the blocking call was second at the
\* meter, the async call's worker second at the tracer and at the logger.
C13_Witness ==
    /\ Len(calls) = 2
    /\ calls[1].path = "shutdown"
    /\ calls[2].path = "async_shutdown"
    /\ calls[2].mgr = calls[1].mgr
    /\ calls[2].after = {}
    /\ FirstSucceedsRepeatFails(calls[1])
    /\ FirstSucceedsRepeatFails(calls[2])
    /\ calls[1].repeat = {"meter"}
    /\ calls[2].repeat = {"tracer", "logger"}
    /\ calls[1].cpc = "returned" /\ calls[1].result.kind = "MultipleShutdownFailures"
    /\ calls[2].cpc = "returned" /\ calls[2].result.kind = "MultipleShutdownFailures"

\* The initialize_telemetry calls that returned manager m.
ReturnedBy(m) ==
    {i \in DOMAIN inits : inits[i].pc = "returned" /\ inits[i].manager = m}

\* C14: an initialize_telemetry call that returned has seen no exporter
\* build() fail, and its manager holds the logger, tracer and meter
\* providers, each built with the call's descriptor; a call in which an
\* exporter's build() failed has panicked inside the init function of that
\* exporter and returned no manager; so every manager, and with it every
\* provider a shutdown can be attempted on, comes from a call in which all
\* three were constructed.
C14_AllThreeOrPanic ==
    /\ \A i \in DOMAIN inits :
          LET init == inits[i] IN
          /\ init.pc = "returned" =>
                /\ init.failed = "none"
                /\ init.at = "none"
                /\ init.manager \in DOMAIN managers
          /\ init.failed # "none" =>
                /\ init.pc = "panicked"
                /\ init.at = CASE init.failed = "logs" -> "init_logs"
                                [] init.failed = "traces" -> "init_traces"
                                [] init.failed = "metrics" -> "init_metrics"
          /\ init.pc # "returned" => init.manager = 0
    /\ \A m \in DOMAIN managers :
          /\ DOMAIN managers[m] = {"logger", "tracer", "meter"}
          /\ Cardinality(ReturnedBy(m)) = 1
          /\ \A i \in ReturnedBy(m) : \A b \in Backends :
                /\ inits[i].resource.set
                /\ managers[m][b].resource = inits[i].resource

\* The metric exporter's build() failed after the logger and tracer
\* providers were built and installed: the call panicked, no manager exists.
C14_Witness ==
    \E i \in DOMAIN inits :
        /\ inits[i].failed = "metrics"
        /\ inits[i].pc = "panicked"
        /\ subscriber
        /\ global.tracer = i
        /\ managers = <<>>

\* The provider an entry of the failure list is about.
ProviderOf(line) == CHOOSE b \in Backends : NameOf(b) = line[1]

\* How often the fragment occurs in the message.
Count(msg, fragment) == Cardinality({k \in DOMAIN msg : msg[k] = fragment})

\* C15: on both paths the list of failures holds, at any moment, one entry
\* "<name>: <error>" for each provider that has failed so far and no other,
\* in the order tracer provider, meter provider, logger provider; and the
\* message of the aggregate a completed sequence yields is these entries in
\* that order with one newline between two neighbours.
C15_MessageEntriesInOrder ==
    \A c \in DOMAIN calls :
        LET call == calls[c]
            list == call.shutdown_errors
        IN /\ Len(list) = Cardinality(Failed(call))
           /\ \A k \in DOMAIN list :
                 /\ Len(list[k]) = 3
                 /\ list[k][1] \in {NameOf(b) : b \in Failed(call)}
                 /\ list[k][2] = ": "
                 /\ list[k][3] = ErrorOf(call, ProviderOf(list[k]))
           /\ \A j, k \in DOMAIN list :
                 j < k => Rank(ProviderOf(list[j])) < Rank(ProviderOf(list[k]))
           /\ (call.pc = "done" /\ Failed(call) # {}) =>
                 LET msg == call.ret.msg IN
                 /\ call.ret.kind = "MultipleShutdownFailures"
                 /\ Len(msg) = 4 * Len(list) - 1
                 /\ Count(msg, "\n") = Len(list) - 1
                 /\ \A k \in DOMAIN list :
                       /\ SubSeq(msg, 4 * k - 3, 4 * k - 1) = list[k]
                       /\ k < Len(list) => msg[4 * k] = "\n"
                 /\ \A b \in Backends : Count(msg, NameOf(b)) = IF b \in Failed(call) THEN 1 ELSE 0

\* A worker yielded the message of a failed tracer and logger.
C15_Witness ==
    \E c \in DOMAIN calls :
        /\ calls[c].path = "async_shutdown"
        /\ calls[c].pc = "done"
        /\ Failed(calls[c]) = {"tracer", "logger"}
        /\ Succeeded(calls[c]) = {"meter"}
        /\ Len(calls[c].ret.msg) = 7

\* The initialize_telemetry calls whose get_resource call returns in this step.
Getting ==
    {i \in DOMAIN inits : inits[i].pc = "get_resource" /\ inits'[i].pc # "get_resource"}

\* C16: with get_resource calls in progress at the same time, the cache is
\* written by at most one step, taken while it is empty by one caller, who
\* stores the descriptor of its own arguments; all callers that have
\* returned hold the same descriptor, the stored one; and when the callers'
\* arguments differ it is the descriptor of exactly one of them, whichever
\* came first to the cache, not necessarily the one called first.
C16_SingleWriter ==
    /\ [][RESOURCE' # RESOURCE =>
            /\ ~RESOURCE.set
            /\ Cardinality(Getting) = 1
            /\ \A i \in Getting : RESOURCE' = DescriptorOf(inits[i])
         ]_vars
    /\ [][\A i \in DOMAIN inits :
            HasResource(i) => inits'[i].resource = inits[i].resource
         ]_vars
    /\ [](\A i, j \in DOMAIN inits :
            (HasResource(i) /\ HasResource(j)) =>
                /\ inits[i].resource = inits[j].resource
                /\ inits[i].resource = RESOURCE)
    /\ [](RESOURCE.set =>
            /\ \E i \in DOMAIN inits : HasResource(i) /\ RESOURCE = DescriptorOf(inits[i])
            /\ (\A i, j \in DOMAIN inits :
                   i # j => DescriptorOf(inits[i]) # DescriptorOf(inits[j]))
                => Cardinality({i \in DOMAIN inits : RESOURCE = DescriptorOf(inits[i])}) = 1)

\* Two calls with different names and attributes were in get_resource at
\* the same time; both hold the descriptor of the call that was made second.
C16_Witness ==
    /\ Len(inits) = 2
    /\ ~inits[2].sequential
    /\ inits[1].service_name # inits[2].service_name
    /\ inits[1].attributes # inits[2].attributes
    /\ HasResource(1) /\ HasResource(2)
    /\ inits[1].resource = DescriptorOf(inits[2])
    /\ inits[2].resource = DescriptorOf(inits[2])

\* Call c has returned ShutdownTimeout to its caller.
TimedOut(c) ==
    /\ c \in DOMAIN calls
    /\ calls[c].cpc = "returned"
    /\ calls[c].result.kind = "ShutdownTimeout"

\* C17: whenever async_shutdown returns ShutdownTimeout the closure has
\* been submitted to the blocking pool and has not ended; when that happens
\* at the first poll of the call (a timeout of zero), the closure is queued
\* with no shutdown() entered yet. The pool then takes the closure up, and
\* the sequence goes on in the background until it ends: unless the runtime
\* dropped the closure before it started or a shutdown() panicked, it has
\* then entered the shutdown() of the tracer, the meter and the logger.
C17_SubmittedBeforeTimeout ==
    /\ [][\A c \in 1..MaxCalls :
            (JustReturned(c) /\ calls'[c].result.kind = "ShutdownTimeout") =>
                /\ RunAtPoll(c) \in Backends \cup {"queued"}
                /\ calls'[c].pc = RunAtPoll(c)
                /\ c \notin DOMAIN calls =>
                      /\ calls'[c].pc = "queued"
                      /\ calls'[c].log = <<>>
         ]_vars
    /\ \A c \in 1..MaxCalls :
          (TimedOut(c) /\ calls[c].pc = "queued")
              ~> (TimedOut(c) /\ calls[c].pc \in {"tracer", "aborted"})
    /\ \A c \in 1..MaxCalls :
          TimedOut(c)
              ~> (/\ TimedOut(c)
                  /\ \/ calls[c].pc \in {"aborted", "panicked"}
                     \/ /\ calls[c].pc = "done"
                        /\ Entered(calls[c].log) = <<"tracer", "meter", "logger">>)

\* The caller holds ShutdownTimeout while the closure is queued on the
\* blocking pool and has entered no shutdown() yet.
C17_Witness ==
    \E c \in DOMAIN calls :
        /\ TimedOut(c)
        /\ calls[c].timer
        /\ calls[c].pc = "queued"
        /\ calls[c].log = <<>>

\* The caller of call c is about to be resumed with both the timer elapsed
\* and the worker's sequence ended.
Tie(c) ==
    /\ c \in DOMAIN calls
    /\ calls[c].timeout = "Some"
    /\ calls[c].cpc = "awaiting"
    /\ calls[c].timer
    /\ Ended(calls[c])

\* C18: a caller of async_shutdown(Some(..)) that is resumed when the
\* deadline has passed and the worker's sequence has ended gets the
\* worker's result: Ok or the aggregate failure of a completed sequence,
\* TaskJoin for a worker that panicked or was aborted, and not
\* ShutdownTimeout; and no other step ends the wait of such a caller.
C18_TieGoesToWorker ==
    [][\A c \in 1..MaxCalls :
        (Tie(c) /\ calls'[c] # calls[c]) =>
            LET old == calls[c]
                new == calls'[c]
            IN /\ new.cpc = "returned"
               /\ new.timer
               /\ new.result.kind # "ShutdownTimeout"
               /\ old.pc = "done" =>
                     /\ new.result = ExpectedResult(old)
                     /\ new.result.kind \in {"Ok", "MultipleShutdownFailures"}
               /\ old.pc \in {"panicked", "aborted"} =>
                     new.result = [kind |-> "TaskJoin", msg |-> <<old.pc>>]
               /\ Run(new) = Run(old)
      ]_vars

\* With the deadline passed, the caller was resumed with the aggregate
\* failure of its completed worker.
C18_Witness ==
    \E c \in DOMAIN calls :
        /\ calls[c].timeout = "Some"
        /\ calls[c].timer
        /\ calls[c].cpc = "returned"
        /\ calls[c].pc = "done"
        /\ calls[c].result.kind = "MultipleShutdownFailures"

====
